---- MODULE Spec2Model ----
(***************************************************************************)
(* The three scripts of presenton/tutorials as one state machine:          *)
(*   generate_reports.py        ("students": one presentation per CSV row) *)
(*   generate_sales_reports.py  ("sales": one report per company group)    *)
(*   pitch_deck_agent.py        ("pitch": interactive pitch-deck agent)    *)
(* Text is modelled as a sequence of tokens (one-character strings where   *)
(* the code looks inside the text, longer literals elsewhere). Currency    *)
(* columns are held in tenths of a unit (12345678 is 1234567.8) and        *)
(* percentage columns in quarters of a unit (18 is 4.5).                   *)
(***************************************************************************)
EXTENDS Integers, Sequences, FiniteSets, TLC

VARIABLES
    script,        \* which script runs: "students", "sales" or "pitch"
    csv,           \* the rows read by pd.read_csv
    records,       \* what the for loop iterates over, in iteration order
    idx,           \* number of loop iterations already finished
    pc,            \* position of the running script
    prompt,        \* the prompt of the running iteration
    response,      \* the generation response of the running iteration
    files,         \* the output directory: file name -> iteration that wrote it
    trace,         \* the externally visible steps taken so far, in order
    env,           \* the process environment (OPENAI_API_KEY)
    self,          \* the PitchDeckGenerator instance
    frame,         \* the local variables of PitchDeckGenerator.run
    exit_status    \* the exit status of the process, "running" until it ends

vars == <<script, csv, records, idx, pc, prompt, response, files, trace,
          env, self, frame, exit_status>>

None == "None"

\* ------------------------------------------------------------------ bounds
MaxRows == 3
MaxGroupRows == 3
MaxModelQuestions == 5
MaxRuns == 2

\* ------------------------------------------------------- generic helpers
RECURSIVE SumSeq(_)
SumSeq(s) == IF s = <<>> THEN 0 ELSE Head(s) + SumSeq(Tail(s))

Column(rows, f) == [i \in 1..Len(rows) |-> rows[i][f]]

Contains(s, x) == \E i \in 1..Len(s) : s[i] = x

\* Series.unique(): the distinct values in order of first appearance
RECURSIVE Unique(_)
Unique(s) ==
    IF s = <<>> THEN <<>>
    ELSE LET u == Unique(SubSeq(s, 1, Len(s) - 1))
             x == s[Len(s)]
         IN  IF Contains(u, x) THEN u ELSE Append(u, x)

SeqsUpTo(S, n) == UNION {[1..k -> S] : k \in 0..n}

\* ------------------------------------------------------ number formatting
DigitChars == <<"0", "1", "2", "3", "4", "5", "6", "7", "8", "9">>

RECURSIVE DigitsOf(_)
DigitsOf(n) ==
    IF n < 10 THEN <<DigitChars[n + 1]>>
    ELSE Append(DigitsOf(n \div 10), DigitChars[(n % 10) + 1])

\* the "," option of the format mini-language: a comma every three digits
RECURSIVE GroupThousands(_)
GroupThousands(ds) ==
    IF Len(ds) <= 3 THEN ds
    ELSE GroupThousands(SubSeq(ds, 1, Len(ds) - 3)) \o <<",">>
             \o SubSeq(ds, Len(ds) - 2, Len(ds))

\* n/d (n >= 0, d > 0) rounded to the nearest integer, ties to even, as
\* float formatting rounds an exactly represented value
RoundHalfEven(n, d) ==
    LET q == n \div d
        r == n % d
    IN  IF 2 * r < d THEN q
        ELSE IF 2 * r > d THEN q + 1
        ELSE IF q % 2 = 0 THEN q ELSE q + 1

\* the amount cut to its integer part instead of rounded
TruncatedCurrency(tenths) ==
    <<"$">> \o GroupThousands(DigitsOf(tenths \div 10))

\* f"${x:,.0f}" for x = tenths/10 >= 0
FormatCurrency(tenths) ==
    <<"$">> \o GroupThousands(DigitsOf(RoundHalfEven(tenths, 10)))

\* f"{x:.2f}" for x = num/den, den > 0
FormatFixed2(num, den) ==
    LET a == IF num < 0 THEN -num ELSE num
        h == RoundHalfEven(100 * a, den)
    IN  (IF num < 0 THEN <<"-">> ELSE <<>>)
            \o DigitsOf(h \div 100) \o <<".">>
            \o <<DigitChars[((h \div 10) % 10) + 1], DigitChars[(h % 10) + 1]>>

\* ------------------------------------------------------------ sales data
Companies == {"Acme", "Beta", "Zeta"}

\* Python's order of the company names above ("Acme" < "Beta" < "Zeta")
CompanyRank == [c \in Companies |->
                   CASE c = "Acme" -> 1 [] c = "Beta" -> 2 [] c = "Zeta" -> 3]

Regions == {"West", "East"}

\* the numeric and text columns of a row of sales_data.csv
Profiles == {
    [TotalSales |-> 12345678, NewClients |-> 12, Churn |-> 18, Satisfaction |-> 33,
     Growth |-> -10, Marketing |-> 5, Notable |-> "Launch",
     ProductA |-> 10004, ProductB |-> 9995, ProductC |-> 0, TopRep |-> "Ann"],
    [TotalSales |-> 1004, NewClients |-> 3, Churn |-> 1, Satisfaction |-> 40,
     Growth |-> 5, Marketing |-> 15, Notable |-> "Launch",
     ProductA |-> 25, ProductB |-> 9999999, ProductC |-> 1004, TopRep |-> "Bob"],
    [TotalSales |-> 5000, NewClients |-> 0, Churn |-> 19, Satisfaction |-> 1,
     Growth |-> 0, Marketing |-> 9994, Notable |-> "Recall",
     ProductA |-> 3000, ProductB |-> 2000, ProductC |-> 0, TopRep |-> "Cy"] }

SalesRow(c, r, p) ==
    [Company |-> c, Region |-> r, TotalSales |-> p.TotalSales,
     NewClients |-> p.NewClients, Churn |-> p.Churn,
     Satisfaction |-> p.Satisfaction, Growth |-> p.Growth,
     Marketing |-> p.Marketing, Notable |-> p.Notable, ProductA |-> p.ProductA,
     ProductB |-> p.ProductB, ProductC |-> p.ProductC, TopRep |-> p.TopRep]

\* rows for the study of build_prompt: every region and profile, two companies
PromptRows == {SalesRow(c, r, p) : c \in {"Zeta", "Acme"}, r \in Regions, p \in Profiles}

\* rows for the batch loop: every company, one region and profile
BatchSalesRows ==
    {SalesRow(c, "East", p) : c \in Companies,
                              p \in {q \in Profiles : q.TopRep = "Cy"}}

WhereRegion(group, region) == SelectSeq(group, LAMBDA row : row.Region = region)

\* one line of the Regional Performance table (the amount sums the whole group)
RegionalRowWholeGroup(group, region) ==
    [region |-> region,
     sales  |-> FormatCurrency(SumSeq(Column(group, "TotalSales")))]

\* one line of the Regional Performance table
RegionalRow(group, region) ==
    [region |-> region,
     sales  |-> FormatCurrency(SumSeq(Column(WhereRegion(group, region), "TotalSales")))]

ProductRow(group, region) ==
    LET gr == WhereRegion(group, region)
    IN  [region |-> region,
         a |-> FormatCurrency(SumSeq(Column(gr, "ProductA"))),
         b |-> FormatCurrency(SumSeq(Column(gr, "ProductB"))),
         c |-> FormatCurrency(SumSeq(Column(gr, "ProductC")))]

PerformerRow(group, region) ==
    LET gr == WhereRegion(group, region)
    IN  [region |-> region, rep |-> gr[1].TopRep, clients |-> gr[1].NewClients]

\* build_prompt(company, group) of the sales script: the variable parts of
\* the markdown text, section by section
SalesPrompt(company, group) ==
    LET regions == Unique(Column(group, "Region"))
        n == Len(group)
    IN  [company      |-> company,
         total_sales  |-> FormatCurrency(SumSeq(Column(group, "TotalSales"))),
         churn        |-> FormatFixed2(SumSeq(Column(group, "Churn")), 4 * n) \o <<"%">>,
         satisfaction |-> FormatFixed2(SumSeq(Column(group, "Satisfaction")), 4 * n)
                              \o <<"/10">>,
         notable      |-> Unique(Column(group, "Notable")),
         regional     |-> [i \in 1..Len(regions) |-> RegionalRow(group, regions[i])],
         products     |-> [i \in 1..Len(regions) |-> ProductRow(group, regions[i])],
         clients      |-> SumSeq(Column(group, "NewClients")),
         growth       |-> FormatFixed2(SumSeq(Column(group, "Growth")), 4 * n) \o <<"%">>,
         marketing    |-> FormatCurrency(SumSeq(Column(group, "Marketing"))),
         performers   |-> [i \in 1..Len(regions) |-> PerformerRow(group, regions[i])],
         n_sections   |-> 5]

\* the keys of df.groupby("Company") in first-appearance order (sort=False)
GroupKeysUnsorted(rows) == Unique(Column(rows, "Company"))

RECURSIVE InsertSorted(_, _)
InsertSorted(s, c) ==
    IF s = <<>> THEN <<c>>
    ELSE IF CompanyRank[c] <= CompanyRank[Head(s)] THEN <<c>> \o s
    ELSE <<Head(s)>> \o InsertSorted(Tail(s), c)

RECURSIVE SortKeys(_)
SortKeys(s) == IF s = <<>> THEN <<>> ELSE InsertSorted(SortKeys(Tail(s)), Head(s))

\* the keys of df.groupby("Company"): groupby sorts the group keys
GroupKeys(rows) == SortKeys(Unique(Column(rows, "Company")))

\* iterating df.groupby("Company"): (company, group) pairs, the rows of a
\* group in their CSV order
CompanyGroups(rows) ==
    LET keys == GroupKeys(rows)
    IN  [i \in 1..Len(keys) |->
            [id    |-> keys[i],
             group |-> SelectSeq(rows, LAMBDA row : row.Company = keys[i])]]

\* ---------------------------------------------------------- student data
\* rows of students.csv (a file may hold the same row, and so the same
\* Name, more than once)
StudentRows == {
    [Name |-> "Alice", FinalGrade |-> "A", ECA |-> "Chess", Sports |-> "None",
     Quiz |-> "9/10", Behavior |-> "Good", Comment |-> "Keep going"],
    [Name |-> "Bob", FinalGrade |-> "C", ECA |-> "None", Sports |-> "Football",
     Quiz |-> "5/10", Behavior |-> "Talkative", Comment |-> "Needs focus"] }

\* build_prompt(row) of the student script: the seven labelled lines and
\* the closing instruction
StudentPrompt(row) ==
    <<"Student Name: ", row.Name, "Final Grade: ", row.FinalGrade,
      "ECA Participation: ", row.ECA, "Sports Involvement: ", row.Sports,
      "Quiz Scores: ", row.Quiz, "Class Behavior: ", row.Behavior,
      "Teacher's Comment: ", row.Comment,
      "Generate a parent-friendly presentation">>

\* df.iterrows(): one record per row, in row order
StudentRecords(rows) ==
    [i \in 1..Len(rows) |-> [id |-> rows[i].Name, group |-> <<rows[i]>>]]

\* ------------------------------------------------- the generation service
\* the "path" values the generation service may answer with
Paths == { <<"/", "d", "/", "a">>, <<"/", "d", "/", "b">> }

\* what requests.post can do: return 2xx with a JSON body holding "path",
\* return 2xx with a body that is no such JSON, return non-2xx, or raise
PostOutcomes ==
    {[kind |-> "ok", path |-> p] : p \in Paths}
        \cup {[kind |-> k, path |-> <<>>] : k \in {"bad_body", "http_error", "raises"}}

\* what requests.get can do: return 2xx, return non-2xx, or raise
GetOutcomes == {"ok", "http_error", "raises"}

\* s.split('/')[-1]: what follows the last "/" (all of s when it has none)
RECURSIVE LastSegment(_)
LastSegment(s) ==
    IF s = <<>> THEN <<>>
    ELSE IF s[Len(s)] = "/" THEN <<>>
    ELSE Append(LastSegment(SubSeq(s, 1, Len(s) - 1)), s[Len(s)])

\* the student script's name for a saved artifact
StudentFilename(id, path) == <<"presentations/">> \o LastSegment(path)

\* a sales file named as the student script names its files
SalesFilenameFromPath(company, path) == <<"reports/">> \o LastSegment(path)

\* the sales script's name for a saved artifact
SalesFilename(company, path) == <<"reports/", company, "_Sales_Report.pdf">>

Filename(id, path) ==
    IF script = "sales" THEN SalesFilename(id, path) ELSE StudentFilename(id, path)

BuildPrompt(rec) ==
    IF script = "sales" THEN SalesPrompt(rec.id, rec.group)
    ELSE StudentPrompt(rec.group[1])

\* one visible step: the iteration it belongs to, the identity field of its
\* record, what was done, how the outside world answered, and the service
\* path and local file name involved
Event(rec, id, step, out, path, file) ==
    [rec |-> rec, id |-> id, step |-> step, out |-> out, path |-> path,
     file |-> file]

NoResponse == [path |-> <<>>]
NoPrompt == <<>>

Batch == script \in {"students", "sales"}
Cur == records[idx + 1]

\* ------------------------------------------------------ the batch scripts
\* module level: pd.read_csv, and for the sales script df.groupby("Company")
ReadCsv ==
    /\ Batch /\ pc = "start"
    /\ records' = IF script = "sales" THEN CompanyGroups(csv) ELSE StudentRecords(csv)
    /\ pc' = "loop"
    /\ UNCHANGED <<script, csv, idx, prompt, response, files, trace, env, self,
                   frame, exit_status>>

\* the head of the for loop and the first lines of its body: the next
\* record, if any, and its prompt
LoopNext ==
    /\ Batch /\ pc = "loop"
    /\ IF idx < Len(records)
       THEN /\ prompt' = BuildPrompt(Cur)
            /\ trace' = Append(trace, Event(idx + 1, Cur.id, "prompt", "-", <<>>, <<>>))
            /\ pc' = "post"
            /\ UNCHANGED exit_status
       ELSE /\ pc' = "done"
            /\ exit_status' = "0"
            /\ UNCHANGED <<prompt, trace>>
    /\ UNCHANGED <<script, csv, records, idx, response, files, env, self, frame>>

\* the loop body posting again after a non-2xx response
AfterPostRetry(out) ==
    /\ trace' = Append(trace, Event(idx + 1, Cur.id, "post", out.kind, out.path, <<>>))
    /\ CASE out.kind = "ok" ->
              /\ response' = [path |-> out.path]
              /\ pc' = "get"
              /\ UNCHANGED <<idx, exit_status>>
         [] out.kind = "http_error" ->
              /\ pc' = "post"
              /\ UNCHANGED <<idx, response, exit_status>>
         [] OTHER ->
              /\ pc' = "crashed"
              /\ exit_status' = "1"
              /\ UNCHANGED <<idx, response>>

\* what the loop body does once requests.post has returned or raised: the
\* exception of a failed connection and that of response.json() or
\* result['path'] are caught nowhere and end the script
AfterPost(out) ==
    /\ CASE out.kind = "ok" ->
              /\ trace' = Append(trace, Event(idx + 1, Cur.id, "post", out.kind, out.path, <<>>))
              /\ response' = [path |-> out.path]
              /\ pc' = "get"
              /\ UNCHANGED <<idx, exit_status>>
         [] out.kind = "http_error" ->
              /\ trace' = trace \o <<Event(idx + 1, Cur.id, "post", out.kind, <<>>, <<>>),
                                     Event(idx + 1, Cur.id, "log_failed", "-", <<>>, <<>>)>>
              /\ idx' = idx + 1
              /\ pc' = "loop"
              /\ UNCHANGED <<response, exit_status>>
         [] OTHER ->
              /\ trace' = Append(trace, Event(idx + 1, Cur.id, "post", out.kind, <<>>, <<>>))
              /\ pc' = "crashed"
              /\ exit_status' = "1"
              /\ UNCHANGED <<idx, response>>

\* requests.post(...) and the branch on response.ok
Post ==
    /\ Batch /\ pc = "post"
    /\ \E out \in PostOutcomes : AfterPost(out)
    /\ UNCHANGED <<script, csv, records, prompt, files, env, self, frame>>

\* requests.get(download_url) and the branch on file_response.ok
Get ==
    /\ Batch /\ pc = "get"
    /\ \E out \in GetOutcomes :
         CASE out = "ok" ->
                /\ trace' = Append(trace,
                       Event(idx + 1, Cur.id, "get", out, response.path, <<>>))
                /\ pc' = "write"
                /\ UNCHANGED <<idx, exit_status>>
           [] out = "http_error" ->
                /\ trace' = trace \o
                       <<Event(idx + 1, Cur.id, "get", out, response.path, <<>>),
                         Event(idx + 1, Cur.id, "log_failed", "-", <<>>, <<>>)>>
                /\ idx' = idx + 1
                /\ pc' = "loop"
                /\ UNCHANGED exit_status
           [] OTHER ->
                /\ trace' = Append(trace,
                       Event(idx + 1, Cur.id, "get", out, response.path, <<>>))
                /\ pc' = "crashed"
                /\ exit_status' = "1"
                /\ UNCHANGED idx
    /\ UNCHANGED <<script, csv, records, prompt, response, files, env, self, frame>>

\* open(filename, 'wb') and f.write(file_response.content)
Write ==
    /\ Batch /\ pc = "write"
    /\ LET filename == Filename(Cur.id, response.path)
       IN  /\ files' = [f \in DOMAIN files \cup {filename} |->
                           IF f = filename THEN idx + 1 ELSE files[f]]
           /\ trace' = Append(trace,
                  Event(idx + 1, Cur.id, "write", "-", response.path, filename))
    /\ idx' = idx + 1
    /\ pc' = "loop"
    /\ UNCHANGED <<script, csv, records, prompt, response, env, self, frame,
                   exit_status>>

\* ------------------------------------------------------ pitch-deck agent
\* str.strip() on a text whose blanks are the tokens " "
RECURSIVE LStrip(_)
LStrip(s) == IF s # <<>> /\ Head(s) = " " THEN LStrip(Tail(s)) ELSE s

RECURSIVE RStrip(_)
RStrip(s) ==
    IF s # <<>> /\ s[Len(s)] = " " THEN RStrip(SubSeq(s, 1, Len(s) - 1)) ELSE s

Strip(s) == RStrip(LStrip(s))

\* JSON and Python values that the code only measures, joins or slices
JList(items) == [t |-> "list", items |-> items]
JStr(chars) == [t |-> "str", items |-> chars]
JDict(keys) == [t |-> "dict", items |-> keys]
JNull == [t |-> "null", items |-> <<>>]
JNum == [t |-> "num", items |-> <<>>]

\* the three questions written out in generate_questions (twice)
FallbackQuestions ==
    <<"What is your company's main product or service?",
      "Who is your target market?",
      "What makes your solution unique?">>

\* questions the model may write
ModelQuestions == <<"MQ1", "MQ2", "MQ3", "MQ4", "MQ5", "MQ6", "MQ7">>
ModelText == <<"W", "h", "a", "t", "?", "!", "~">>

\* what the "questions" member of the tool-call arguments may hold: a list
\* of questions, or, the schema not being enforced, any other JSON value
QuestionValues ==
    {JList(SubSeq(ModelQuestions, 1, k)) : k \in 0..MaxModelQuestions}
        \cup {JStr(SubSeq(ModelText, 1, k)) : k \in 0..MaxModelQuestions}
        \cup {JDict(SubSeq(ModelText, 1, k)) : k \in {1, 4}}
        \cup {JNull, JNum}

\* what chat.completions.create can do in generate_questions: raise, answer
\* without a tool call, answer with arguments that are not JSON, that are
\* JSON but no object, or that are an object with or without "questions"
ModelReplies ==
    {[kind |-> k, has_questions |-> FALSE, questions |-> JNull] :
        k \in {"raises", "no_tool_call", "bad_json", "not_object", "object"}}
        \cup {[kind |-> "object", has_questions |-> TRUE, questions |-> q] :
                 q \in QuestionValues}

\* the values OPENAI_API_KEY may have: unset, empty, set
ApiKeys == {None, "", "sk-live"}

\* setup_openai testing `api_key is None`: an empty key passes
SetupOpenaiIsNone(api_key) ==
    [exit |-> api_key = None, client |-> "OpenAI"]

\* setup_openai: `if not api_key` is true of an unset and of an empty key
SetupOpenai(api_key) ==
    [exit |-> (api_key = None \/ api_key = ""), client |-> "OpenAI"]

\* what the operator may type at "Enter the company website URL: "
UrlInputs == { <<>>, <<" ">>, <<" ", "acme.com">>, <<"https://", "acme.com", " ">> }

\* what the operator may type at "Your answer: "
AnswerInputs == { <<" ">>, <<" ", "B2B", " ">> }

Absent == [present |-> FALSE, text |-> <<>>]
Element(text) == [present |-> TRUE, text |-> text]

\* the pages a site may serve: each of the four elements absent or present
\* (a meta description may be present without content: text <<>>)
Pages ==
    [title : {Absent, Element(<<" ", "Acme", " ">>)},
     meta  : {Absent, Element(<<>>), Element(<<"We", " ", "sell">>)},
     h1    : {Absent, Element(<<"Hello", " ">>)},
     p     : {Absent, Element(<<" ", "First">>)}]

NoPage == [title |-> Absent, meta |-> Absent, h1 |-> Absent, p |-> Absent]

\* what requests.get and raise_for_status can do in fetch_company_info
FetchOutcomes ==
    {[kind |-> "raises", page |-> NoPage]}
        \cup {[kind |-> "page", page |-> pg] : pg \in Pages}

WithScheme(url) ==
    IF url # <<>> /\ Head(url) \in {"http://", "https://"} THEN url
    ELSE <<"https://">> \o url

\* the h1 line written like the title line, with a placeholder text
H1Marked(h1) == IF h1.present THEN Strip(h1.text) ELSE <<"No h1 found">>

\* the h1 line of fetch_company_info
H1Text(h1) == IF h1.present THEN Strip(h1.text) ELSE <<>>

\* fetch_company_info(url), given what the request did
FetchCompanyInfo(url, out) ==
    IF out.kind = "page"
    THEN [url             |-> WithScheme(url),
          title           |-> IF out.page.title.present
                              THEN Strip(out.page.title.text)
                              ELSE <<"No title found">>,
          description     |-> IF out.page.meta.present THEN out.page.meta.text
                              ELSE <<>>,
          h1              |-> H1Text(out.page.h1),
          first_paragraph |-> IF out.page.p.present THEN Strip(out.page.p.text)
                              ELSE <<>>]
    ELSE [url |-> WithScheme(url), title |-> <<>>, description |-> <<>>,
          h1 |-> <<>>, first_paragraph |-> <<>>]

\* whether the try block of generate_questions raises: the call itself,
\* tool_calls[0], json.loads, arguments.get, len(questions),
\* questions + fallback_questions[...] or questions[:3]
QuestionsRaise(reply) ==
    \/ reply.kind # "object"
    \/ LET q == IF reply.has_questions THEN reply.questions ELSE JList(<<>>)
       IN  \/ q.t \notin {"list", "str", "dict"}
           \/ Len(q.items) < 3 /\ q.t # "list"
           \/ Len(q.items) >= 3 /\ q.t = "dict"

\* generate_questions(company_info), given what the model call did: the
\* value returned and the instance afterwards
GenerateQuestionsOf(inst, reply) ==
    IF QuestionsRaise(reply)
    THEN [ret |-> JList(FallbackQuestions), self |-> inst]
    ELSE LET q == IF reply.has_questions THEN reply.questions ELSE JList(<<>>)
             questions ==
                 IF Len(q.items) < 3
                 THEN JList(q.items \o SubSeq(FallbackQuestions, 1, 3 - Len(q.items)))
                 ELSE [t |-> q.t, items |-> SubSeq(q.items, 1, 3)]
         IN  [ret |-> questions, self |-> [inst EXCEPT !.last_questions = questions]]

\* zip(a, b)
Zip(a, b) ==
    LET n == IF Len(a) < Len(b) THEN Len(a) ELSE Len(b)
    IN  [i \in 1..n |-> <<a[i], b[i]>>]

\* the variable parts of the outline prompt of generate_pitch_deck_structure
StructurePrompt(inst, company_info, answers) ==
    [url |-> company_info.url, title |-> company_info.title,
     description |-> company_info.description, h1 |-> company_info.h1,
     qa |-> Zip(inst.last_questions.items, answers)]

NoSelf == [presenton_base_url |-> <<>>, openai_client |-> None,
           last_questions |-> JList(<<>>)]
NoInfo == [url |-> <<>>, title |-> <<>>, description |-> <<>>, h1 |-> <<>>,
           first_paragraph |-> <<>>]
NoFrame == [company_url |-> <<>>, company_info |-> NoInfo,
            questions |-> JList(<<>>), answers |-> <<>>,
            structure_prompt |-> <<>>, structure |-> None, result |-> None]

Pitch == script = "pitch"

\* main(): PitchDeckGenerator() runs __init__ and with it setup_openai
Main ==
    /\ Pitch /\ pc = "start"
    /\ LET s == SetupOpenai(env.OPENAI_API_KEY)
       IN  IF s.exit
           THEN /\ self' = [NoSelf EXCEPT
                               !.presenton_base_url = <<"http://localhost:5000">>]
                /\ exit_status' = "1"
                /\ pc' = "exited"
           ELSE /\ self' = [presenton_base_url |-> <<"http://localhost:5000">>,
                            openai_client |-> s.client,
                            last_questions |-> JList(<<>>)]
                /\ pc' = "run"
                /\ UNCHANGED exit_status
    /\ UNCHANGED <<script, csv, records, idx, prompt, response, files, trace,
                   env, frame>>

\* run(): the URL prompt and the return on an empty URL
RunInputUrl ==
    /\ Pitch /\ pc = "run"
    /\ \E raw \in UrlInputs :
         /\ frame' = [frame EXCEPT !.company_url = Strip(raw)]
         /\ trace' = Append(trace, Event(1, "web", "input", "-", <<>>, <<>>))
         /\ IF Strip(raw) = <<>>
            THEN pc' = "done" /\ exit_status' = "0"
            ELSE pc' = "fetch" /\ UNCHANGED exit_status
    /\ UNCHANGED <<script, csv, records, idx, prompt, response, files, env, self>>

\* run(): company_info = self.fetch_company_info(company_url)
RunFetch ==
    /\ Pitch /\ pc = "fetch"
    /\ \E out \in FetchOutcomes :
         /\ frame' = [frame EXCEPT
                         !.company_info = FetchCompanyInfo(frame.company_url, out)]
         /\ trace' = Append(trace, Event(1, "web", "fetch", out, <<>>, <<>>))
    /\ pc' = "questions"
    /\ UNCHANGED <<script, csv, records, idx, prompt, response, files, env, self,
                   exit_status>>

\* run(): questions = self.generate_questions(company_info)
RunQuestions ==
    /\ Pitch /\ pc = "questions"
    /\ \E reply \in ModelReplies :
         LET r == GenerateQuestionsOf(self, reply)
         IN  /\ self' = r.self
             /\ frame' = [frame EXCEPT !.questions = r.ret]
             /\ trace' = Append(trace,
                    Event(1, "web", "questions", reply, <<>>, <<>>))
    /\ pc' = "answers"
    /\ UNCHANGED <<script, csv, records, idx, prompt, response, files, env,
                   exit_status>>

\* run(): answers = self.get_user_answers(questions), one input() per
\* element of questions, each answer stripped
RunAnswers ==
    /\ Pitch /\ pc = "answers"
    /\ \E raws \in [1..Len(frame.questions.items) -> AnswerInputs] :
         frame' = [frame EXCEPT
                      !.answers = [i \in 1..Len(raws) |-> Strip(raws[i])]]
    /\ trace' = trace \o [i \in 1..Len(frame.questions.items) |->
                             Event(1, "web", "input", "-", <<>>, <<>>)]
    /\ pc' = "structure"
    /\ UNCHANGED <<script, csv, records, idx, prompt, response, files, env, self,
                   exit_status>>

\* run(): structure = self.generate_pitch_deck_structure(company_info,
\* answers); a failed model call yields get_default_structure
RunStructure ==
    /\ Pitch /\ pc = "structure"
    /\ \E ok \in BOOLEAN :
         /\ frame' = [frame EXCEPT
                         !.structure_prompt =
                             StructurePrompt(self, frame.company_info, frame.answers),
                         !.structure = IF ok THEN "model" ELSE "default"]
         /\ trace' = Append(trace, Event(1, "web", "structure", ok, <<>>, <<>>))
    /\ pc' = "presentation"
    /\ UNCHANGED <<script, csv, records, idx, prompt, response, files, env, self,
                   exit_status>>

\* run(): result = self.generate_presentation(company_info, structure) and
\* the closing messages; every failure of the request is caught and gives
\* None, and nothing is downloaded or written
RunPresentation ==
    /\ Pitch /\ pc = "presentation"
    /\ \E out \in PostOutcomes :
         IF out.kind = "ok"
         THEN /\ frame' = [frame EXCEPT !.result = "result"]
              /\ trace' = trace \o <<Event(1, "web", "post", out.kind, out.path, <<>>),
                                     Event(1, "web", "log_done", "-", out.path, <<>>)>>
         ELSE /\ frame' = [frame EXCEPT !.result = None]
              /\ trace' = trace \o <<Event(1, "web", "post", out.kind, <<>>, <<>>),
                                     Event(1, "web", "log_failed", "-", <<>>, <<>>)>>
    /\ pc' = "done"
    /\ exit_status' = "0"
    /\ UNCHANGED <<script, csv, records, idx, prompt, response, files, env, self>>

\* --------------------------------------------------------- specifications
Init ==
    /\ script \in {"students", "sales", "pitch"}
    /\ csv \in CASE script = "students" -> SeqsUpTo(StudentRows, MaxRows)
                 [] script = "sales" -> SeqsUpTo(BatchSalesRows, MaxRows)
                 [] OTHER -> {<<>>}
    /\ env \in IF script = "pitch" THEN [OPENAI_API_KEY : ApiKeys]
               ELSE {[OPENAI_API_KEY |-> None]}
    /\ records = <<>>
    /\ idx = 0
    /\ pc = "start"
    /\ prompt = NoPrompt
    /\ response = NoResponse
    /\ files = <<>>
    /\ trace = <<>>
    /\ self = NoSelf
    /\ frame = NoFrame
    /\ exit_status = "running"

Next ==
    \/ ReadCsv
    \/ LoopNext
    \/ Post
    \/ Get
    \/ Write
    \/ Main
    \/ RunInputUrl
    \/ RunFetch
    \/ RunQuestions
    \/ RunAnswers
    \/ RunStructure
    \/ RunPresentation

Spec == Init /\ [][Next]_vars

\* build_prompt applied to the next company group, on its own
ApplyBuildPrompt ==
    /\ script = "sales" /\ pc = "loop" /\ idx < Len(records)
    /\ prompt' = BuildPrompt(Cur)
    /\ idx' = idx + 1
    /\ UNCHANGED <<script, csv, records, pc, response, files, trace, env, self,
                   frame, exit_status>>

InitPrompt ==
    /\ script = "sales"
    /\ csv \in SeqsUpTo(PromptRows, MaxGroupRows)
    /\ env = [OPENAI_API_KEY |-> None]
    /\ records = <<>>
    /\ idx = 0
    /\ pc = "start"
    /\ prompt = NoPrompt
    /\ response = NoResponse
    /\ files = <<>>
    /\ trace = <<>>
    /\ self = NoSelf
    /\ frame = NoFrame
    /\ exit_status = "running"

NextPrompt ==
    \/ ReadCsv
    \/ ApplyBuildPrompt

SpecPrompt == InitPrompt /\ [][NextPrompt]_vars

\* the instance main() has built, with a key set
BuiltSelf ==
    [presenton_base_url |-> <<"http://localhost:5000">>,
     openai_client |-> SetupOpenai("sk-live").client,
     last_questions |-> JList(<<>>)]

\* the number of outline prompts built so far on the instance
Runs == Cardinality({i \in DOMAIN trace : trace[i].step = "structure"})

\* generate_questions, get_user_answers and generate_pitch_deck_structure
\* called once more, in that order, on the same instance
CallAgain ==
    /\ Pitch /\ pc = "presentation"
    /\ Runs < MaxRuns
    /\ pc' = "questions"
    /\ UNCHANGED <<script, csv, records, idx, prompt, response, files, trace,
                   env, self, frame, exit_status>>

InitCalls ==
    /\ script = "pitch"
    /\ csv = <<>>
    /\ env = [OPENAI_API_KEY |-> "sk-live"]
    /\ records = <<>>
    /\ idx = 0
    /\ pc = "questions"
    /\ prompt = NoPrompt
    /\ response = NoResponse
    /\ files = <<>>
    /\ trace = <<>>
    /\ self = BuiltSelf
    /\ frame \in {[NoFrame EXCEPT !.company_url = <<"acme.com">>,
                                  !.company_info = FetchCompanyInfo(<<"acme.com">>, out)] :
                     out \in {o \in FetchOutcomes : o.page = NoPage}}
    /\ exit_status = "running"

NextCalls ==
    \/ RunQuestions
    \/ RunAnswers
    \/ RunStructure
    \/ CallAgain

\* the three Q&A methods called in turn, run after run, on one instance
SpecCalls == InitCalls /\ [][NextCalls]_vars

\* ------------------------------------------------------------- properties
\* the positions in the trace of the steps of one kind taken for record r
Steps(r, step) ==
    {i \in DOMAIN trace : trace[i].rec = r /\ trace[i].step = step}

Started(r) == Steps(r, "prompt") # {}
Logged(r) == Steps(r, "log_failed") # {}
Saved(r) == \E i \in Steps(r, "write") : trace[i].file \in DOMAIN files
PostOk(r) == \E i \in Steps(r, "post") : trace[i].out = "ok"
GetOk(r) == \E i \in Steps(r, "get") : trace[i].out = "ok"
BatchEnded == Batch /\ pc \in {"done", "crashed"}

\* C1: in the batch scripts, when the generation request of a record that
\* is not the last fails (non-2xx response or the POST raising), the
\* failure is logged, the record is skipped (no download, no file) and the
\* next record's pipeline is still started: the batch is never aborted.
C1_FailureNeverAbortsBatch ==
    BatchEnded =>
        \A n \in 1..(Len(records) - 1) :
            (\E i \in Steps(n, "post") : trace[i].out \in {"http_error", "raises"})
                => /\ Logged(n)
                   /\ Steps(n, "get") = {}
                   /\ Steps(n, "write") = {}
                   /\ Started(n + 1)

\* the part of C1 about a non-2xx response alone
NonSuccessResponseIsSkipped ==
    BatchEnded =>
        \A n \in 1..(Len(records) - 1) :
            (\E i \in Steps(n, "post") : trace[i].out = "http_error")
                => /\ Logged(n)
                   /\ Steps(n, "get") = {}
                   /\ Steps(n, "write") = {}
                   /\ Started(n + 1)

IsQuestionList(reply) ==
    reply.kind = "object" /\ reply.has_questions /\ reply.questions.t = "list"

\* C2: generate_questions always returns a list of exactly 3 questions:
\* the model's k < 3 questions followed by the first 3-k fallback
\* questions, the first 3 of its k >= 3 questions, and the 3 default
\* questions when the call fails or its reply is malformed; the run goes on.
C2_AlwaysThreeQuestions ==
    \A i \in Steps(1, "questions") :
        LET reply == trace[i].out
            ret == frame.questions
            k == Len(reply.questions.items)
        IN  /\ ret.t = "list"
            /\ Len(ret.items) = 3
            /\ (IsQuestionList(reply) /\ k < 3) =>
                   ret.items = reply.questions.items
                                   \o SubSeq(FallbackQuestions, 1, 3 - k)
            /\ (IsQuestionList(reply) /\ k >= 3) =>
                   ret.items = SubSeq(reply.questions.items, 1, 3)
            /\ ~IsQuestionList(reply) => ret.items = FallbackQuestions
            /\ pc # "crashed" /\ exit_status # "1"

\* the part of C2 that does not depend on the type of "questions"
ThreeElementsReturned ==
    \A i \in Steps(1, "questions") :
        /\ Len(frame.questions.items) = 3
        /\ IsQuestionList(trace[i].out) => frame.questions.t = "list"
        /\ pc # "crashed" /\ exit_status # "1"

KeyMissing == env.OPENAI_API_KEY = None \/ env.OPENAI_API_KEY = ""

\* C3: in the pitch-deck variant, with OPENAI_API_KEY unset or empty the
\* process ends with exit status 1 during construction: before any network
\* call and before any operator input.
C3_MissingKeyExitsFirst ==
    (Pitch /\ KeyMissing /\ pc # "start") =>
        /\ pc = "exited"
        /\ exit_status = "1"
        /\ trace = <<>>

C3_Witness == Pitch /\ env.OPENAI_API_KEY = "" /\ pc = "exited"

\* the records of a run: the loop's records, or the one scraped page
RecordIds ==
    IF Batch THEN 1..Len(records)
    ELSE IF Steps(1, "fetch") # {} THEN {1} ELSE {}

AtMostOne(S) == \A i, j \in S : i = j

\* no step of record r follows position i of the trace
LastOf(r, i) == \A j \in DOMAIN trace : j > i => trace[j].rec # r

C5_FailedDownloadIsSkipped ==
    BatchEnded =>
        \A n \in 1..Len(records) :
            /\ (\E i \in Steps(n, "get") : trace[i].out # "ok")
                   => /\ Steps(n, "write") = {}
                      /\ Cardinality(Steps(n, "get")) = 1
                      /\ n < Len(records) => Started(n + 1)
            /\ Steps(n, "write") # {} => PostOk(n) /\ GetOk(n)

\* the part of C5 about a non-2xx download alone
NonSuccessDownloadIsSkipped ==
    BatchEnded =>
        \A n \in 1..Len(records) :
            /\ (\E i \in Steps(n, "get") : trace[i].out = "http_error")
                   => /\ Steps(n, "write") = {}
                      /\ Cardinality(Steps(n, "get")) = 1
                      /\ Logged(n)
                      /\ n < Len(records) => Started(n + 1)
            /\ Steps(n, "write") # {} => PostOk(n) /\ GetOk(n)

\* where record r begins in the input: its row, or for a company group the
\* first row of that company
SourcePos(r) ==
    IF script = "sales"
    THEN CHOOSE i \in DOMAIN csv :
             /\ csv[i].Company = records[r].id
             /\ \A j \in DOMAIN csv : csv[j].Company = records[r].id => i <= j
    ELSE r

\* C6 (as stated): records are processed one at a time in source order:
\* when A comes before B in the input (for the sales script: company A's
\* first row before company B's first row), every step of A happens before
\* the first step of B.
C6_SourceOrder ==
    Batch =>
        \A p, q \in DOMAIN trace :
            (trace[p].rec # trace[q].rec
                 /\ SourcePos(trace[p].rec) < SourcePos(trace[q].rec)) => p < q

\* C6 (amended): records are processed one at a time in iteration order,
\* every step of a record before the first step of the next; the student
\* script iterates the rows in CSV order, the sales script iterates the
\* companies in ascending order of name, wherever their rows stand.
C6_IterationOrder ==
    Batch =>
        /\ \A p, q \in DOMAIN trace : p < q => trace[p].rec <= trace[q].rec
        /\ \A p \in DOMAIN trace : trace[p].id = records[trace[p].rec].id
        /\ (script = "students" /\ pc # "start") =>
               /\ Len(records) = Len(csv)
               /\ \A i \in DOMAIN csv : records[i].group = <<csv[i]>>
        /\ (script = "sales" /\ pc # "start") =>
               /\ {records[i].id : i \in DOMAIN records}
                      = {csv[i].Company : i \in DOMAIN csv}
               /\ \A i, j \in DOMAIN records :
                      i < j => CompanyRank[records[i].id] < CompanyRank[records[j].id]

C6_Witness ==
    /\ script = "sales" /\ pc = "done" /\ Len(records) >= 2
    /\ SourcePos(1) > SourcePos(2)
    /\ Started(1) /\ Started(2)

Writes == {i \in DOMAIN trace : trace[i].step = "write"}

\* C7 (as stated): the file name is a function of the record's identity
\* field alone, not of the path the service returned, so records with
\* distinct identities are never saved under the same name within a run.
C7_NameFromIdentity ==
    Batch =>
        \A i, j \in Writes :
            /\ trace[i].id = trace[j].id => trace[i].file = trace[j].file
            /\ trace[i].id # trace[j].id => trace[i].file # trace[j].file

\* seg is what follows the last "/" of path
IsLastSegment(seg, path) ==
    /\ \A i \in DOMAIN seg : seg[i] # "/"
    /\ \E k \in 0..Len(path) :
          /\ seg = SubSeq(path, k + 1, Len(path))
          /\ k > 0 => path[k] = "/"
          /\ k = 0 => \A i \in DOMAIN path : path[i] # "/"

\* C7 (amended): in the sales script the file name is
\* reports/<company>_Sales_Report.pdf whatever path the service returned,
\* so distinct companies are never saved under the same name; in the
\* student script it is presentations/<last segment of the returned path>,
\* whatever the student's name.
C7_NameFromCompanyOrPath ==
    \A i \in Writes :
        IF script = "sales"
        THEN /\ trace[i].file = <<"reports/", trace[i].id, "_Sales_Report.pdf">>
             /\ \A j \in Writes :
                    trace[i].rec # trace[j].rec => trace[i].file # trace[j].file
        ELSE /\ Head(trace[i].file) = "presentations/"
             /\ IsLastSegment(Tail(trace[i].file), trace[i].path)

C7_Witness ==
    /\ script = "sales"
    /\ \E i, j \in Writes :
          trace[i].rec # trace[j].rec /\ trace[i].path = trace[j].path

\* C8 (as stated): fetch_company_info never aborts the run and returns a
\* record whose title, description, h1 and first_paragraph are each empty
\* when the element is absent from the page, and all empty when the fetch
\* fails.
C8_AbsentIsEmpty ==
    \A i \in Steps(1, "fetch") :
        LET out == trace[i].out
            info == frame.company_info
        IN  /\ pc # "crashed" /\ exit_status # "1"
            /\ out.kind = "raises" =>
                   /\ info.title = <<>> /\ info.description = <<>>
                   /\ info.h1 = <<>> /\ info.first_paragraph = <<>>
            /\ (out.kind = "page" /\ ~out.page.title.present) => info.title = <<>>
            /\ (out.kind = "page" /\ ~out.page.meta.present) => info.description = <<>>
            /\ (out.kind = "page" /\ ~out.page.h1.present) => info.h1 = <<>>
            /\ (out.kind = "page" /\ ~out.page.p.present) =>
                   info.first_paragraph = <<>>

\* C8 (amended): fetch_company_info never aborts the run and returns a
\* record whose description, h1 and first_paragraph are each empty when the
\* element is absent from the page and whose title is then the text
\* "No title found"; all four are empty when the fetch fails.
C8_AbsentIsEmptyButTitle ==
    \A i \in Steps(1, "fetch") :
        LET out == trace[i].out
            info == frame.company_info
        IN  /\ pc # "crashed" /\ exit_status # "1"
            /\ out.kind = "raises" =>
                   /\ info.title = <<>> /\ info.description = <<>>
                   /\ info.h1 = <<>> /\ info.first_paragraph = <<>>
            /\ (out.kind = "page" /\ ~out.page.title.present) =>
                   info.title = <<"No title found">>
            /\ (out.kind = "page" /\ ~out.page.meta.present) => info.description = <<>>
            /\ (out.kind = "page" /\ ~out.page.h1.present) => info.h1 = <<>>
            /\ (out.kind = "page" /\ ~out.page.p.present) =>
                   info.first_paragraph = <<>>

C8_Witness ==
    \E i \in Steps(1, "fetch") :
        /\ trace[i].out.kind = "page"
        /\ ~trace[i].out.page.title.present
        /\ ~trace[i].out.page.h1.present
        /\ pc = "questions"

\* ---- reading the rendered numbers back
IsDigit(ch) == \E d \in DOMAIN DigitChars : DigitChars[d] = ch

DigitValue(ch) == (CHOOSE d \in DOMAIN DigitChars : DigitChars[d] = ch) - 1

RECURSIVE ParseDigits(_)
ParseDigits(s) ==
    IF s = <<>> THEN 0
    ELSE 10 * ParseDigits(SubSeq(s, 1, Len(s) - 1)) + DigitValue(s[Len(s)])

\* "$", then an integer with no decimal part, a comma before every group
\* of three digits and nowhere else, no leading zero
IsCurrencyText(txt) ==
    /\ Len(txt) >= 2
    /\ Head(txt) = "$"
    /\ LET body == Tail(txt)
           n == Len(body)
       IN  /\ \A i \in 1..n :
                  IF (n - i) % 4 = 3 THEN body[i] = "," ELSE IsDigit(body[i])
           /\ n > 1 => body[1] # "0"

CurrencyValue(txt) == ParseDigits(SelectSeq(Tail(txt), LAMBDA ch : ch # ","))

\* an optional sign, digits, ".", exactly two digits, "%"
IsPercentText(txt) ==
    LET body == IF Head(txt) = "-" THEN Tail(txt) ELSE txt
        n == Len(body)
    IN  /\ n >= 5
        /\ body[n] = "%"
        /\ IsDigit(body[n - 1]) /\ IsDigit(body[n - 2])
        /\ body[n - 3] = "."
        /\ \A i \in 1..(n - 4) : IsDigit(body[i])

\* whole units v are a nearest integer to the amount of `tenths` tenths
Nearest(v, tenths) == 10 * v - tenths \in -5..5

\* the sum of a column over the rows of one region of a group
SumWhere(g, region, col) ==
    SumSeq([i \in DOMAIN g |-> IF g[i].Region = region THEN g[i][col] ELSE 0])

\* build_prompt has just returned `prompt` for the group records[idx]
Built == script = "sales" /\ pc = "loop" /\ idx >= 1

BuiltGroup == records[idx].group

RegionsOf(g) == {g[i].Region : i \in DOMAIN g}

OneRowPerRegion ==
    /\ {prompt.regional[i].region : i \in DOMAIN prompt.regional} = RegionsOf(BuiltGroup)
    /\ Len(prompt.regional) = Cardinality(RegionsOf(BuiltGroup))

RowsSumTheirRegion ==
    \A i \in DOMAIN prompt.regional :
        Nearest(CurrencyValue(prompt.regional[i].sales),
                SumWhere(BuiltGroup, prompt.regional[i].region, "TotalSales"))

\* C9 (as stated): the Regional Performance table has exactly one row per
\* distinct Region of the group, each row's amount is the sum of Total
\* Sales over that region's rows only, and the Executive Summary total
\* equals the sum of the amounts of all rows of the table.
C9_TotalIsSumOfRows ==
    Built =>
        /\ OneRowPerRegion
        /\ RowsSumTheirRegion
        /\ CurrencyValue(prompt.total_sales)
               = SumSeq([i \in DOMAIN prompt.regional |->
                            CurrencyValue(prompt.regional[i].sales)])

\* C9 (amended): exactly one row per distinct Region of the group, each
\* row's amount the sum of Total Sales over that region's rows only,
\* rounded to whole units; the Executive Summary total is the sum of the
\* unrounded regional sums, rounded to whole units: it equals the sum of
\* the amounts shown in the table when every regional sum is whole, and may
\* differ from it otherwise.
C9_TotalIsRoundedSumOfRegions ==
    Built =>
        LET regionSums == [i \in DOMAIN prompt.regional |->
                SumWhere(BuiltGroup, prompt.regional[i].region, "TotalSales")]
        IN  /\ OneRowPerRegion
            /\ RowsSumTheirRegion
            /\ Nearest(CurrencyValue(prompt.total_sales), SumSeq(regionSums))
            /\ (\A i \in DOMAIN regionSums : regionSums[i] % 10 = 0) =>
                   CurrencyValue(prompt.total_sales)
                       = SumSeq([i \in DOMAIN prompt.regional |->
                                    CurrencyValue(prompt.regional[i].sales)])

C9_Witness ==
    /\ Built
    /\ Len(BuiltGroup) >= 3
    /\ Cardinality(RegionsOf(BuiltGroup)) = 2
    /\ CurrencyValue(prompt.total_sales)
           # SumSeq([i \in DOMAIN prompt.regional |->
                        CurrencyValue(prompt.regional[i].sales)])

\* every currency amount the prompt shows
CurrencyTexts ==
    {prompt.total_sales, prompt.marketing}
        \cup {prompt.regional[i].sales : i \in DOMAIN prompt.regional}
        \cup UNION {{prompt.products[i].a, prompt.products[i].b, prompt.products[i].c} :
                       i \in DOMAIN prompt.products}

\* C10 (as stated): every currency amount is shown as "$" and a
\* thousands-separated integer with no decimal part, 1234567.8 being shown
\* as $1,234,567; every percentage is shown with exactly two decimal
\* places, 4.5 being shown as 4.50%.
C10_CurrencyCutToInteger ==
    Built =>
        /\ \A txt \in CurrencyTexts : IsCurrencyText(txt)
        /\ SumSeq(Column(BuiltGroup, "TotalSales")) = 12345678 =>
               prompt.total_sales
                   = <<"$", "1", ",", "2", "3", "4", ",", "5", "6", "7">>
        /\ IsPercentText(prompt.churn) /\ IsPercentText(prompt.growth)
        /\ SumSeq(Column(BuiltGroup, "Churn")) = 18 * Len(BuiltGroup) =>
               prompt.churn = <<"4", ".", "5", "0", "%">>

\* C10 (amended): every currency amount is shown as "$" and a
\* thousands-separated integer with no decimal part, the amount rounded to
\* the nearest whole unit, 1234567.8 being shown as $1,234,568; every
\* percentage is shown with exactly two decimal places, 4.5 being shown as
\* 4.50%.
C10_CurrencyRoundedToInteger ==
    Built =>
        /\ \A txt \in CurrencyTexts : IsCurrencyText(txt)
        /\ Nearest(CurrencyValue(prompt.total_sales),
                   SumSeq(Column(BuiltGroup, "TotalSales")))
        /\ Nearest(CurrencyValue(prompt.marketing),
                   SumSeq(Column(BuiltGroup, "Marketing")))
        /\ \A i \in DOMAIN prompt.products :
               LET r == prompt.products[i].region
               IN  /\ Nearest(CurrencyValue(prompt.products[i].a),
                              SumWhere(BuiltGroup, r, "ProductA"))
                   /\ Nearest(CurrencyValue(prompt.products[i].b),
                              SumWhere(BuiltGroup, r, "ProductB"))
                   /\ Nearest(CurrencyValue(prompt.products[i].c),
                              SumWhere(BuiltGroup, r, "ProductC"))
        /\ RowsSumTheirRegion
        /\ SumSeq(Column(BuiltGroup, "TotalSales")) = 12345678 =>
               prompt.total_sales
                   = <<"$", "1", ",", "2", "3", "4", ",", "5", "6", "8">>
        /\ IsPercentText(prompt.churn) /\ IsPercentText(prompt.growth)
        /\ SumSeq(Column(BuiltGroup, "Churn")) = 18 * Len(BuiltGroup) =>
               prompt.churn = <<"4", ".", "5", "0", "%">>

C10_Witness ==
    /\ Built
    /\ SumSeq(Column(BuiltGroup, "TotalSales")) = 12345678
    /\ SumSeq(Column(BuiltGroup, "Churn")) = 18 * Len(BuiltGroup)
    /\ \E txt \in CurrencyTexts : Len(txt) >= 10
    /\ Head(prompt.growth) = "-"

\* the outline prompt has just been built from frame.answers, the answers
\* to frame.questions, the questions the latest generate_questions returned
OutlineBuilt == Pitch /\ pc = "presentation"

ShownPairs ==
    [i \in DOMAIN frame.answers |-> <<frame.questions.items[i], frame.answers[i]>>]

\* C11: after any sequence of generate_questions / get_user_answers /
\* generate_pitch_deck_structure calls on one instance (failed model
\* requests and repeated runs included), the Q&A block of the outline
\* prompt holds exactly the pairs (q_i, a_i), i = 1..3, in order, q_i the
\* i-th question the most recent generate_questions returned and a_i the
\* operator's answer to it: no answer is dropped, none is paired with a
\* question of an earlier call.
C11_AnswersPairedWithShownQuestions ==
    OutlineBuilt =>
        /\ Len(frame.structure_prompt.qa) = 3
        /\ frame.structure_prompt.qa = ShownPairs

\* the part of C11 that holds: when the latest generate_questions did not
\* take its except branch, the Q&A block is the three shown pairs
PairedWhenModelCallSucceeds ==
    (OutlineBuilt /\ self.last_questions = frame.questions) =>
        /\ Len(frame.structure_prompt.qa) = 3
        /\ frame.structure_prompt.qa = ShownPairs

\* the weaker reading of C11 in which answers may be dropped but never
\* paired with another call's questions
NeverPairedWithEarlierQuestions ==
    OutlineBuilt =>
        \A i \in DOMAIN frame.structure_prompt.qa :
            frame.structure_prompt.qa[i] = ShownPairs[i]

====
